---- MODULE Spec2Model ----
(***************************************************************************)
(* Model of the Zepto scraper: the per-item chain                          *)
(*   scrape_task -> scrape_product -> get_store_id_for_pincode ->          *)
(*   get_lat_long_zepto / get_zepto_store_id / get_edt -> catalog call     *)
(* and the two retrying resolvers called on their own with any budget.     *)
(* One action is one outbound upstream call together with the handling of  *)
(* its response up to the next call (or up to the return of the run).      *)
(***************************************************************************)
EXTENDS Integers, Sequences, FiniteSets, TLC

\* ------------------------------------------------------------------ bounds
\* Largest max_retries a direct call of a resolver is given.
MaxRetries == 3
\* Largest number of products run_batch is given.
MaxItems == 4
\* Largest chunk_size run_batch is given (the smallest is -1).
MaxChunk == 4
\* Longest URL extract_sku_from_url is given.
MaxUrlLen == 4

\* ------------------------------------------------------ program constants
\* config.RETRY_DELAY, imported by api_helpers.py and zepto_scraper.py.
RETRY_DELAY == 2
\* get_zepto_store_id(..., max_retries: int = 1)
StoreDefaultRetries == 1
\* get_edt(..., max_retries: int = 2)
EdtDefaultRetries == 2
\* @task(retries=3, retry_delay_seconds=10)
TaskRetries == 3
TaskRetryDelay == 10

\* ------------------------------------------------------------ JSON values
\* A parsed JSON value (and a Python value held in a local): a kind and a
\* payload.  Strings are sequences of one-character strings.
Null == [k |-> "null", v |-> 0]
Str(s) == [k |-> "str", v |-> s]
Num(n) == [k |-> "num", v |-> n]
Bool(b) == [k |-> "bool", v |-> b]
Obj(r) == [k |-> "obj", v |-> r]
List(s) == [k |-> "list", v |-> s]
\* n minor units divided by 100, as whole part and hundredths.
Dec(n) == [k |-> "dec", v |-> <<n \div 100, n % 100>>]
\* A JSON integer beyond the range of a float (some 310 digits or more):
\* json gives it as an int.
BigNum == [k |-> "bignum", v |-> 0]

EmptyStr == Str(<<>>)

\* Python truth value of a value (bool(x)).
Truthy(x) ==
    CASE x.k = "null" -> FALSE
      [] x.k = "str"  -> Len(x.v) > 0
      [] x.k = "num"  -> x.v # 0
      [] x.k = "bool" -> x.v
      [] x.k = "obj"  -> DOMAIN x.v # {}
      [] x.k = "list" -> Len(x.v) > 0
      [] x.k = "dec"  -> x.v # <<0, 0>>
      [] x.k = "bignum" -> TRUE

\* The result of evaluating a Python expression: a value or a raised exception.
Ok(v) == [exc |-> "none", val |-> v]
Raise(e) == [exc |-> e, val |-> Null]

\* x[key] for a string key.
GetItem(x, key) ==
    IF x.k = "obj"
    THEN IF key \in DOMAIN x.v THEN Ok(x.v[key]) ELSE Raise("KeyError")
    ELSE Raise("TypeError")

\* x[i] for an integer index i >= 0.
GetIndex(x, i) ==
    CASE x.k = "list" -> IF i < Len(x.v) THEN Ok(x.v[i + 1]) ELSE Raise("IndexError")
      [] x.k = "str"  -> IF i < Len(x.v) THEN Ok(Str(<<x.v[i + 1]>>)) ELSE Raise("IndexError")
      [] x.k = "obj"  -> Raise("KeyError")
      [] OTHER        -> Raise("TypeError")

\* x.get(key): only a dict has the method.
DictGet(x, key) ==
    IF x.k = "obj"
    THEN IF key \in DOMAIN x.v THEN Ok(x.v[key]) ELSE Ok(Null)
    ELSE Raise("AttributeError")

\* The same three on the result of an earlier step: an exception propagates.
GetItemR(r, key) == IF r.exc # "none" THEN r ELSE GetItem(r.val, key)
GetIndexR(r, i) == IF r.exc # "none" THEN r ELSE GetIndex(r.val, i)

\* ---------------------------------------------------------- HTTP responses
\* What requests.get gives: a transport error (raised), or a status and a
\* body that either parses as JSON or does not.
TransportError == [err |-> TRUE, status |-> 0, parse |-> FALSE, body |-> Null]
Unparseable(st) == [err |-> FALSE, status |-> st, parse |-> FALSE, body |-> Null]
Json(st, b) == [err |-> FALSE, status |-> st, parse |-> TRUE, body |-> b]

\* response.json()
ResponseJson(r) == IF r.parse THEN Ok(r.body) ELSE Raise("JSONDecodeError")

\* The texts the upstream bodies of the model carry.
P1 == <<"p", "1">>
S1 == <<"s", "1">>
Foo == <<"F", "o", "o">>
Bar == <<"B", "a", "r">>
EightMins == <<"8", " ", "m", "i", "n", "s">>
Soon == <<"s", "o", "o", "n">>

EmptyObj == Obj(<<>>)

\* Place-autocomplete endpoint: JSON with a list of predictions.  The status
\* is never looked at by the caller.
AutocompleteResponses ==
    { TransportError,
      Unparseable(200),
      Json(403, Null),
      Json(200, EmptyObj),
      Json(200, Obj([predictions |-> List(<<>>)])),
      Json(200, Obj([predictions |-> List(<<Obj([place_id |-> Null])>>)])),
      Json(200, Obj([predictions |-> List(<<Obj([place_id |-> Str(P1)])>>)])) }

\* Place-detail endpoint: JSON with result.geometry.location.{lat,lng}.
Location(loc) == Json(200, Obj([result |-> Obj([geometry |-> Obj([location |-> loc])])]))
CoordValues == {Null, Num(0), Num(17)}
DetailResponses ==
    { TransportError,
      Unparseable(200),
      Json(200, Null),
      Json(200, Obj([result |-> Null])),
      Location(Obj([lat |-> Num(17)])) }
    \cup { Location(Obj([lat |-> la, lng |-> ln])) : la \in CoordValues, ln \in CoordValues }

\* Store-layout endpoint: JSON with storeServiceableResponse.storeId.
Layout(ssr) == Json(200, Obj([storeServiceableResponse |-> ssr]))
StoreResponses ==
    { TransportError,
      Json(503, Null),
      Unparseable(200),
      Json(200, Null),
      Json(200, List(<<>>)),
      Json(200, EmptyObj),
      Layout(Null),
      Layout(Str(S1)),
      Layout(EmptyObj),
      Layout(Obj([storeId |-> Null])),
      Layout(Obj([storeId |-> EmptyStr])),
      Layout(Obj([storeId |-> Num(0)])),
      Layout(Obj([storeId |-> Str(S1)])) }

\* ETA endpoint: JSON with the free text secondaryText.
EdtResponses ==
    { TransportError,
      Json(500, Null),
      Unparseable(200),
      Json(200, Null),
      Json(200, List(<<>>)),
      Json(200, EmptyObj),
      Json(200, Obj([secondaryText |-> Null])),
      Json(200, Obj([secondaryText |-> EmptyStr])),
      Json(200, Obj([secondaryText |-> Str(Soon)])),
      Json(200, Obj([secondaryText |-> Num(12)])),
      Json(200, Obj([secondaryText |-> Str(EightMins)])) }

\* ------------------------------------------------------------------ state
VARIABLES
    caller,         \* the entry point of this execution: "scrape_task",
                    \* "get_zepto_store_id", "get_edt", "run_batch" or
                    \* "extract_sku_from_url"
    pc,             \* the next call of the chain: "start", "autocomplete", "detail",
                    \* "store", "edt", "catalog"; "raised"; "done"; in run_batch:
                    \* "enter", "chunk", "collect"; in extract_sku_from_url: "sku"
    run,            \* number of the task run (1 = the initial run)
    scraped_title,  \* scrape_product: scraped_title
    place_id,       \* get_lat_long_zepto: place_id
    lat, lng,       \* what get_lat_long_zepto returned
    store_id,       \* what get_zepto_store_id returned
    edt_raw,        \* what get_edt returned
    resolver,       \* per resolver: "pending", "returned" or "raised"
    attempt,        \* the loop variable of the resolver that is running
    max_retries,    \* its max_retries argument
    headers,        \* the identity in the local variable headers
    events,         \* this run's identities generated, sleeps and requests, in order
    result,         \* what scrape_product returned
    exc,            \* the exception that left the entry point, "none" if none
    response,       \* the last upstream response received
    outcome,        \* the task: "pending", "success", "failed" (returned
                    \* payloads), "crashed" (final state Failed)
    products,       \* run_batch: products, the items numbered in input order
    chunk_size,     \* run_batch: chunk_size
    total, success, failed,     \* run_batch: the three counters
    index,          \* chunked: the start of the next slice
    group,          \* run_batch: the chunk whose futures are being read
    position,       \* how many futures of group the inner loop has read
    task,           \* per item: "unsubmitted", "running", or how its task
                    \* ended: "success", "failed" (payloads), "crashed"
    chunks,         \* the chunks handed to scrape_task.map, in order
    consumed,       \* the items whose future.result() was read, in order
    summary,        \* what run_batch returned: <<>> before, <<dict>> after
    waits,          \* the task layer: the delays it kept between the runs
    url,            \* extract_sku_from_url: url
    sku_id          \* what extract_sku_from_url returned: <<>> before, <<sku>> after

\* The state of the task and of one run of its chain, apart from caller, pc
\* and exc.
chainVars == <<waits, run, scraped_title, place_id, lat, lng, store_id, edt_raw, resolver,
               attempt, max_retries, headers, events, result, response, outcome>>
batchVars == <<products, chunk_size, total, success, failed, index, group, position,
               task, chunks, consumed, summary>>
skuVars == <<url, sku_id>>

vars == <<caller, pc, run, scraped_title, place_id, lat, lng, store_id, edt_raw,
          resolver, attempt, max_retries, headers, events, result, exc, response,
          outcome, waits, batchVars, skuVars>>

\* ------------------------------------------------------------- the record
Record(title, mrp, price, availability, edt) ==
    [title |-> title, mrp |-> mrp, live_price |-> price,
     is_available |-> availability, edt |-> edt]
NoRecord == Record(EmptyStr, EmptyStr, EmptyStr, EmptyStr, EmptyStr)
Pending == [kind |-> "pending", rec |-> NoRecord]
ReturnedNone == [kind |-> "None", rec |-> NoRecord]
Returned(rec) == [kind |-> "record", rec |-> rec]

\* ------------------------------------------------------------- the events
GenEv(who, att, id) == [e |-> "gen", who |-> who, attempt |-> att, id |-> id, delay |-> 0]
SleepEv(who, att, d) == [e |-> "sleep", who |-> who, attempt |-> att, id |-> 0, delay |-> d]
ReqEv(who, att, id) == [e |-> "req", who |-> who, attempt |-> att, id |-> id, delay |-> 0]

Indices(evts, kind) == {i \in 1..Len(evts) : evts[i].e = kind}
\* The identities are told apart by the order of their generation.
NumGen(evts) == Cardinality(Indices(evts, "gen"))

\* ------------------------------------------------- get_lat_long_zepto
\* The place id of the autocomplete response, or the exception of the first try block.
PlaceId(r) ==
    IF r.err THEN Raise("RequestException")
    ELSE GetItemR(GetIndexR(GetItemR(ResponseJson(r), "predictions"), 0), "place_id")

\* What get_lat_long_zepto returns on the detail response r: (lat, lng), or
\* (None, None) when anything in the second try block raises.
LatLng(r) ==
    LET loc == IF r.err THEN Raise("RequestException")
               ELSE GetItemR(GetItemR(GetItemR(ResponseJson(r), "result"),
                                      "geometry"), "location")
        la == GetItemR(loc, "lat")
        ln == GetItemR(loc, "lng")
    IN IF la.exc # "none" \/ ln.exc # "none" THEN <<Null, Null>> ELSE <<la.val, ln.val>>

\* The guard on the coordinates left out.
CoordsMissingDropped(la, ln) == FALSE

\* get_store_id_for_pincode: if not lat or not lng
CoordsMissing(la, ln) == ~Truthy(la) \/ ~Truthy(ln)

\* The guard on the store id left out.
StoreMissingDropped(sid) == FALSE

\* get_store_id_for_pincode: if not store_id; scrape_product: if not store_id
StoreMissing(sid) == ~Truthy(sid)

\* ------------------------------------------- get_zepto_store_id, get_edt
\* The loop runs once more than the budget.
InRangeInclusive(att, budget) == att <= budget

\* for attempt in range(max_retries)
InRange(att, budget) == att < budget

\* The delay grows from the attempt index, not from the attempt number.
BackoffDelayFromIndex(att) == RETRY_DELAY * att

\* delay = RETRY_DELAY * (attempt + 1)
BackoffDelay(att) == RETRY_DELAY * (att + 1)

\* if attempt < max_retries - 1: continue
MayContinue(att, budget) == att < budget - 1

\* The headers generated once, before the loop, and kept for every attempt.
AttemptEventsHoisted(who, evts, att) ==
    LET id == IF att = 0 THEN NumGen(evts) + 1 ELSE NumGen(evts)
        gen == IF att = 0 THEN Append(evts, GenEv(who, att, id)) ELSE evts
        slept == IF att > 0
                 THEN Append(gen, SleepEv(who, att, RETRY_DELAY * (att + 1)))
                 ELSE gen
    IN Append(slept, ReqEv(who, att, id))

\* One pass of the loop body up to the request: fresh headers, the sleep of a
\* later attempt, the request carrying those headers.
AttemptEvents(who, evts, att) ==
    LET id == NumGen(evts) + 1
        gen == Append(evts, GenEv(who, att, id))
        slept == IF att > 0 THEN Append(gen, SleepEv(who, att, BackoffDelay(att)))
                 ELSE gen
    IN Append(slept, ReqEv(who, att, id))

\* How one pass of the loop body ends: the next attempt or None ("retry"),
\* a return value, or an exception no except clause of the loop catches.
Retry == [tag |-> "retry", val |-> Null, exc |-> "none"]
Value(v) == [tag |-> "value", val |-> v, exc |-> "none"]
Uncaught(e) == [tag |-> "raise", val |-> Null, exc |-> e]

StoreOutcome(r) ==
    IF r.err THEN Retry
    ELSE IF r.status # 200 THEN Retry
    ELSE IF ~r.parse THEN Retry
    ELSE LET ssr == DictGet(r.body, "storeServiceableResponse") IN
         IF ssr.exc # "none" THEN Uncaught(ssr.exc)
         ELSE IF ssr.val.k = "null" THEN Retry
         ELSE LET sid == DictGet(ssr.val, "storeId") IN
              IF sid.exc # "none" THEN Uncaught(sid.exc)
              ELSE IF ~Truthy(sid.val) THEN Retry
              ELSE Value(sid.val)

EdtOutcome(r) ==
    IF r.err THEN Retry
    ELSE IF r.status # 200 THEN Retry
    ELSE IF ~r.parse THEN Retry
    ELSE LET edt == DictGet(r.body, "secondaryText") IN
         IF edt.exc # "none" THEN Uncaught(edt.exc)
         ELSE IF ~Truthy(edt.val) THEN Retry
         ELSE Value(edt.val)

\* ------------------------------------------------------------ transitions
\* scrape_product returns res and scrape_task turns it into its payload.
ReturnProduct(res) ==
    /\ result' = res
    /\ outcome' = IF res.kind = "None" THEN "failed" ELSE "success"
    /\ pc' = "done"
    /\ exc' = "none"

\* An exception leaves resolver who: nothing between it and the task layer
\* catches it (scrape_product calls the resolvers outside its try block).
ResolverRaises(who, e) ==
    /\ resolver' = [resolver EXCEPT ![who] = "raised"]
    /\ exc' = e
    /\ pc' = IF caller = "scrape_task" THEN "raised" ELSE "done"
    /\ UNCHANGED <<attempt, max_retries, result, outcome>>

\* get_lat_long_zepto returns (la, ln) to get_store_id_for_pincode.
LatLongReturns(la, ln) ==
    /\ lat' = la
    /\ lng' = ln
    /\ resolver' = [resolver EXCEPT !.latlong = "returned"]
    /\ IF CoordsMissing(la, ln)
       THEN ReturnProduct(ReturnedNone) /\ UNCHANGED <<attempt, max_retries>>
       ELSE /\ pc' = "store"
            /\ attempt' = 0
            /\ max_retries' = StoreDefaultRetries
            /\ UNCHANGED <<result, exc, outcome>>

\* get_zepto_store_id returns v.
StoreReturns(v) ==
    /\ store_id' = v
    /\ resolver' = [resolver EXCEPT !.store = "returned"]
    /\ IF caller = "scrape_task"
       THEN IF StoreMissing(v)
            THEN ReturnProduct(ReturnedNone) /\ UNCHANGED <<attempt, max_retries>>
            ELSE /\ pc' = "edt"
                 /\ attempt' = 0
                 /\ max_retries' = EdtDefaultRetries
                 /\ UNCHANGED <<result, exc, outcome>>
       ELSE /\ pc' = "done"
            /\ UNCHANGED <<attempt, max_retries, result, exc, outcome>>

\* get_edt returns v.
EdtReturns(v) ==
    /\ edt_raw' = v
    /\ resolver' = [resolver EXCEPT !.edt = "returned"]
    /\ pc' = IF caller = "scrape_task" THEN "catalog" ELSE "done"
    /\ UNCHANGED <<attempt, max_retries, result, exc, outcome>>

\* ------------------------------------------------------- scrape_product
\* str(x) for the values get_edt can return.
DigitChars == <<"0", "1", "2", "3", "4", "5", "6", "7", "8", "9">>
RECURSIVE Digits(_)
Digits(n) == IF n < 10 THEN <<DigitChars[n + 1]>>
             ELSE Digits(n \div 10) \o <<DigitChars[(n % 10) + 1]>>
PyStr(x) ==
    CASE x.k = "str"  -> x.v
      [] x.k = "null" -> <<"N", "o", "n", "e">>
      [] x.k = "num"  -> Digits(x.v)

\* numbers = re.findall(r'\d+', s); numbers[0] if numbers else ''
IsDigit(c) == \E i \in 1..10 : DigitChars[i] = c
FirstDigitRun(s) ==
    LET ds == {i \in 1..Len(s) : IsDigit(s[i])} IN
    IF ds = {} THEN <<>>
    ELSE LET a == CHOOSE i \in ds : \A j \in ds : i <= j
             ends == {j \in a..Len(s) : \A m \in a..j : IsDigit(s[m])}
             b == CHOOSE j \in ends : \A m \in ends : m <= j
         IN SubSeq(s, a, b)

\* The raw text kept whole.
EdtDigitsWhole(raw) == Str(PyStr(raw))

\* numbers = re.findall(r'\d+', str(edt_raw)); edt = numbers[0] if numbers else ''
EdtDigits(raw) == Str(FirstDigitRun(PyStr(raw)))

\* The division left out: the minor units are taken as the amount.
Div100Missing(x) ==
    CASE x.k = "num"  -> Ok(Dec(100 * x.v))
      [] x.k = "bool" -> Ok(Dec(IF x.v THEN 100 ELSE 0))
      [] x.k = "bignum" -> Ok(x)
      [] OTHER        -> Raise("TypeError")

\* x / 100
Div100(x) ==
    CASE x.k = "num"  -> Ok(Dec(x.v))
      [] x.k = "bool" -> Ok(Dec(IF x.v THEN 1 ELSE 0))
      [] x.k = "bignum" -> Raise("OverflowError")
      [] OTHER        -> Raise("TypeError")
Div100R(r) == IF r.exc # "none" THEN r ELSE Div100(r.val)

\* The 404 case left out: a 404 is one more failing status.
IsNotFoundDropped(status) == FALSE
\* Only client and server errors fail; a redirect passes.
StatusFailsFrom400(status) == status >= 400

\* if response.status_code == 404
IsNotFound(status) == status = 404
\* if response.status_code != 200
StatusFails(status) == status # 200

ItemNotFound == <<"I", "t", "e", "m", " ", "N", "o", "t", " ", "F", "o", "u", "n", "d">>
Unknown == <<"U", "n", "k", "n", "o", "w", "n">>
Yes == <<"Y", "e", "s">>
No == <<"N", "o">>

\* except (KeyError, IndexError, TypeError) around a field's traversal.
FieldCatches == {"KeyError", "IndexError", "TypeError"}

\* The exception r leaves its try statement.
Escapes(r) == r.exc # "none" /\ r.exc \notin FieldCatches

\* A division of the extraction raises what its except clause does not
\* name: the exception reaches the except Exception of scrape_product.
ExtractAborts(data) ==
    LET product == GetItem(data, "product")
        sp0 == GetIndexR(GetItemR(product, "storeProducts"), 0)
        mrpR == Div100R(GetItemR(GetItemR(sp0, "productVariant"), "mrp"))
        discounted == Div100R(GetItemR(sp0, "discountedSellingPrice"))
        selling == Div100R(GetItemR(sp0, "sellingPrice"))
    IN  \/ Escapes(mrpR)
        \/ Escapes(discounted)
        \/ discounted.exc # "none" /\ Escapes(selling)

\* The record built from the parsed 200 body: each field by its own traversal.
Extract(data, title, edt) ==
    LET product == GetItem(data, "product")
        sp0 == GetIndexR(GetItemR(product, "storeProducts"), 0)
        name == GetItemR(product, "name")
        product_name == IF Truthy(title) THEN title
                        ELSE IF name.exc # "none" THEN Str(Unknown) ELSE name.val
        mrpR == Div100R(GetItemR(GetItemR(sp0, "productVariant"), "mrp"))
        mrp == IF mrpR.exc # "none" THEN EmptyStr ELSE mrpR.val
        discounted == Div100R(GetItemR(sp0, "discountedSellingPrice"))
        selling == Div100R(GetItemR(sp0, "sellingPrice"))
        price == IF discounted.exc = "none" THEN discounted.val
                 ELSE IF selling.exc = "none" THEN selling.val ELSE EmptyStr
        oos == GetItemR(sp0, "outOfStock")
        availability == IF oos.exc # "none" THEN Str(Unknown)
                        ELSE IF ~Truthy(oos.val) THEN Str(Yes) ELSE Str(No)
    IN Record(product_name, mrp, price, availability, edt)

\* What scrape_product returns on the catalog response r.
Product(r, title, edt) ==
    IF r.err THEN ReturnedNone
    ELSE IF IsNotFound(r.status)
         THEN Returned(Record(Str(ItemNotFound), EmptyStr, EmptyStr, Str(ItemNotFound), edt))
    ELSE IF StatusFails(r.status) THEN ReturnedNone
    ELSE LET data == ResponseJson(r) IN
         IF data.exc # "none" \/ ExtractAborts(data.val) THEN ReturnedNone
         ELSE Returned(Extract(data.val, title, edt))

\* The catalog call sent with the headers of the call before it.
CatalogEventsReusing(evts) ==
    evts \o <<SleepEv("catalog", 0, RETRY_DELAY), ReqEv("catalog", 0, NumGen(evts))>>

\* The identity built for the catalog call, the pause, the call.
CatalogEvents(evts) ==
    LET id == NumGen(evts) + 1 IN
    evts \o <<GenEv("catalog", 0, id), SleepEv("catalog", 0, RETRY_DELAY),
              ReqEv("catalog", 0, id)>>

\* Catalog product-detail endpoint: a product document, or 404.
StoreProduct(sp) == Json(200, Obj([product |-> Obj([name |-> Str(Bar), storeProducts |-> List(<<sp>>)])]))
FullProduct ==
    Obj([productVariant |-> Obj([mrp |-> Num(12550)]),
         discountedSellingPrice |-> Num(9900),
         sellingPrice |-> Num(11000),
         outOfStock |-> Bool(FALSE)])
CatalogResponses ==
    { TransportError,
      Json(404, Null),
      Unparseable(404),
      Json(403, Null),
      Unparseable(500),
      [StoreProduct(FullProduct) EXCEPT !.status = 302],
      Unparseable(200),
      Json(200, Null),
      Json(200, Obj([product |-> Obj([name |-> Str(Bar), storeProducts |-> List(<<>>)])])),
      Json(200, Obj([product |-> Obj([brand |-> Str(Foo)])])),
      StoreProduct(FullProduct),
      StoreProduct(Obj([productVariant |-> Obj([mrp |-> Num(12550)]),
                        sellingPrice |-> Num(11000),
                        outOfStock |-> Bool(TRUE)])),
      StoreProduct(Obj([productVariant |-> Null, outOfStock |-> Null])),
      StoreProduct(Obj([productVariant |-> Obj([mrp |-> Null]),
                        discountedSellingPrice |-> Null,
                        sellingPrice |-> Num(11000),
                        outOfStock |-> Str(Foo)])),
      StoreProduct(Obj([discountedSellingPrice |-> Num(0),
                        sellingPrice |-> Num(11000),
                        outOfStock |-> Num(0)])),
      Json(200, Obj([product |-> Obj([name |-> EmptyStr, storeProducts |-> Null])])),
      StoreProduct(Obj([productVariant |-> Obj([mrp |-> Bool(TRUE)]),
                        discountedSellingPrice |-> Str(Foo),
                        sellingPrice |-> Num(11000),
                        outOfStock |-> Bool(FALSE)])),
      StoreProduct(Obj([productVariant |-> Obj([mrp |-> BigNum]),
                        discountedSellingPrice |-> Num(9900),
                        sellingPrice |-> Num(11000),
                        outOfStock |-> Bool(FALSE)])),
      StoreProduct(Obj([productVariant |-> Obj([mrp |-> Num(12550)]),
                        sellingPrice |-> BigNum,
                        outOfStock |-> Bool(TRUE)])),
      Json(200, Obj([product |-> Obj([name |-> Null])])) }

\* ------------------------------------------------------------------ Init
\* ------------------------------------------------------------ the batch
\* A product list of k items; item i stands for the dict at products[i - 1].
Items(k) == [i \in 1..k |-> i]

Min(a, b) == IF a < b THEN a ELSE b

\* How a task can end: a payload built from a record or from the "item not
\* found" sentinel, the failed payload built from None, or an exception the
\* task's retries did not absorb.
TaskOutcomes == {"record", "sentinel", "failed", "crashed"}

\* The "status" of the payload a task returned.
PayloadStatus(o) == IF o \in {"record", "sentinel"} THEN "success" ELSE "failed"

EmptyInputIgnored(n) == FALSE

\* total == 0
EmptyInput(n) == n = 0

\* range(0, len(items), size) rejects a step of zero.
RangeRaises(size) == size = 0

InChunkRangeWhole(i, stop, size) == size > 0 /\ i + size < stop

\* index is produced by range(0, stop, size).
InChunkRange(i, stop, size) == IF size > 0 THEN i < stop ELSE i > stop

\* items[lo:hi] for 0 <= lo <= hi.
Slice(items, lo, hi) == SubSeq(items, lo + 1, Min(hi, Len(items)))

ResultWithoutWaiting(t) == TRUE

\* future.result() returns or raises once the task has ended.
Resolved(t) == t \in TaskOutcomes

SuccessIncrementAnyPayload(o) == IF o \in {"record", "sentinel", "failed"} THEN 1 ELSE 0

\* success += 1 for a dict whose status is "success".
SuccessIncrement(o) ==
    IF o # "crashed" /\ PayloadStatus(o) = "success" THEN 1 ELSE 0

FailedIncrementPayloadOnly(o) == IF o = "failed" THEN 1 ELSE 0

\* failed += 1 for any other payload, and for an exception of result().
FailedIncrement(o) ==
    IF o # "crashed" /\ PayloadStatus(o) = "success" THEN 0 ELSE 1

SummaryOf(t, s, f) == [total |-> t, success |-> s, failed |-> f]

\* ------------------------------------------------------------------ SKU
UrlChars == {"a", "b", "/", "?"}
Urls == UNION {[1..n -> UrlChars] : n \in 0..MaxUrlLen}

\* s.split(sep) for a one-character separator.
RECURSIVE Split(_, _)
Split(s, sep) ==
    IF \A i \in 1..Len(s) : s[i] # sep
    THEN <<s>>
    ELSE LET i == CHOOSE j \in 1..Len(s) :
                      s[j] = sep /\ \A k \in 1..(j - 1) : s[k] # sep
         IN  <<SubSeq(s, 1, i - 1)>> \o Split(SubSeq(s, i + 1, Len(s)), sep)

\* url.split('/')[-1].split('?')[0]
extract_sku_from_url(u) ==
    LET parts == Split(u, "/")
    IN  Split(parts[Len(parts)], "?")[1]

NoResponse == Unparseable(0)
NoResolver == [latlong |-> "pending", store |-> "pending", edt |-> "pending"]

\* The locals of one run of the chain, before its first statement.
FreshRun ==
    /\ scraped_title = EmptyStr
    /\ place_id = Null
    /\ store_id = Null
    /\ edt_raw = Null
    /\ resolver = NoResolver
    /\ headers = 0
    /\ events = <<>>
    /\ result = Pending
    /\ exc = "none"
    /\ response = NoResponse
    /\ outcome = "pending"

\* The task layer calls scrape_task(pdp_url, pincode).
InitTask ==
    /\ caller = "scrape_task"
    /\ pc = "start"
    /\ lat = Null
    /\ lng = Null
    /\ attempt = 0
    /\ max_retries = 0

\* get_zepto_store_id(lat, lng, pincode, max_retries) and
\* get_edt(lat, lng, store_id, max_retries) called with a budget of their own.
InitResolver ==
    /\ caller \in {"get_zepto_store_id", "get_edt"}
    /\ pc = IF caller = "get_edt" THEN "edt" ELSE "store"
    /\ lat = Num(17)
    /\ lng = Num(17)
    /\ attempt = 0
    /\ max_retries \in 0..MaxRetries

\* No run_batch in this execution.
NoBatch ==
    /\ products = <<>>
    /\ chunk_size = 0
    /\ total = 0
    /\ success = 0
    /\ failed = 0
    /\ index = 0
    /\ group = <<>>
    /\ position = 0
    /\ task = <<>>
    /\ chunks = <<>>
    /\ consumed = <<>>
    /\ summary = <<>>

\* No extract_sku_from_url on its own in this execution.
NoSku ==
    /\ url = <<>>
    /\ sku_id = <<>>

\* run_batch(products, chunk_size) is called.
InitBatch ==
    /\ caller = "run_batch"
    /\ pc = "enter"
    /\ lat = Null
    /\ lng = Null
    /\ attempt = 0
    /\ max_retries = 0
    /\ products \in {Items(k) : k \in 0..MaxItems}
    /\ chunk_size \in -1..MaxChunk
    /\ total = 0
    /\ success = 0
    /\ failed = 0
    /\ index = 0
    /\ group = <<>>
    /\ position = 0
    /\ task = [i \in 1..Len(products) |-> "unsubmitted"]
    /\ chunks = <<>>
    /\ consumed = <<>>
    /\ summary = <<>>

\* extract_sku_from_url(url) is called.
InitSku ==
    /\ caller = "extract_sku_from_url"
    /\ pc = "sku"
    /\ lat = Null
    /\ lng = Null
    /\ attempt = 0
    /\ max_retries = 0
    /\ url \in Urls
    /\ sku_id = <<>>

Init ==
    /\ run = 1
    /\ waits = <<>>
    /\ FreshRun
    /\ \/ (InitTask \/ InitResolver) /\ NoBatch /\ NoSku
       \/ InitBatch /\ NoSku
       \/ InitSku /\ NoBatch

\* --------------------------------------------------------------- actions
\* scrape_product up to the call of get_store_id_for_pincode: the locality,
\* the SKU and the best-effort title scrape.
Begin ==
    /\ pc = "start"
    /\ scraped_title' \in {EmptyStr, Str(Foo)}
    /\ pc' = "autocomplete"
    /\ UNCHANGED <<caller, run, place_id, lat, lng, store_id, edt_raw, resolver,
                   attempt, max_retries, headers, events, result, exc, response,
                   outcome>>
    /\ UNCHANGED <<waits, batchVars, skuVars>>

\* get_lat_long_zepto: fresh headers and the autocomplete call.
Autocomplete ==
    /\ pc = "autocomplete"
    /\ \E r \in AutocompleteResponses :
        LET id == NumGen(events) + 1
            pid == PlaceId(r)
        IN /\ headers' = id
           /\ events' = events \o <<GenEv("latlong", 0, id), ReqEv("autocomplete", 0, id)>>
           /\ response' = r
           /\ IF pid.exc # "none"
              THEN /\ LatLongReturns(Null, Null)
                   /\ UNCHANGED place_id
              ELSE /\ place_id' = pid.val
                   /\ pc' = "detail"
                   /\ UNCHANGED <<lat, lng, resolver, attempt, max_retries, result,
                                  exc, outcome>>
    /\ UNCHANGED <<caller, run, scraped_title, store_id, edt_raw>>
    /\ UNCHANGED <<waits, batchVars, skuVars>>

\* get_lat_long_zepto: the detail call, with the headers of the first call.
Detail ==
    /\ pc = "detail"
    /\ \E r \in DetailResponses :
        LET ll == LatLng(r)
        IN /\ events' = Append(events, ReqEv("detail", 0, headers))
           /\ response' = r
           /\ LatLongReturns(ll[1], ll[2])
    /\ UNCHANGED <<caller, run, scraped_title, place_id, store_id, edt_raw, headers>>
    /\ UNCHANGED <<waits, batchVars, skuVars>>

\* get_zepto_store_id: the loop head, and one pass of the loop body.
StoreStep ==
    /\ pc = "store"
    /\ IF InRange(attempt, max_retries)
       THEN \E r \in StoreResponses :
            LET o == StoreOutcome(r)
                evts == AttemptEvents("store", events, attempt)
            IN /\ events' = evts
               /\ headers' = evts[Len(evts)].id
               /\ response' = r
               /\ CASE o.tag = "raise" ->
                         ResolverRaises("store", o.exc) /\ UNCHANGED store_id
                    [] o.tag = "value" -> StoreReturns(o.val)
                    [] o.tag = "retry" /\ MayContinue(attempt, max_retries) ->
                         /\ attempt' = attempt + 1
                         /\ UNCHANGED <<pc, store_id, resolver, max_retries, result,
                                        exc, outcome>>
                    [] OTHER -> StoreReturns(Null)
       ELSE StoreReturns(Null) /\ UNCHANGED <<events, headers, response>>
    /\ UNCHANGED <<caller, run, scraped_title, place_id, lat, lng, edt_raw>>
    /\ UNCHANGED <<waits, batchVars, skuVars>>

\* get_edt: the loop head, and one pass of the loop body.
EdtStep ==
    /\ pc = "edt"
    /\ IF InRange(attempt, max_retries)
       THEN \E r \in EdtResponses :
            LET o == EdtOutcome(r)
                evts == AttemptEvents("edt", events, attempt)
            IN /\ events' = evts
               /\ headers' = evts[Len(evts)].id
               /\ response' = r
               /\ CASE o.tag = "raise" ->
                         ResolverRaises("edt", o.exc) /\ UNCHANGED edt_raw
                    [] o.tag = "value" -> EdtReturns(o.val)
                    [] o.tag = "retry" /\ MayContinue(attempt, max_retries) ->
                         /\ attempt' = attempt + 1
                         /\ UNCHANGED <<pc, edt_raw, resolver, max_retries, result,
                                        exc, outcome>>
                    [] OTHER -> EdtReturns(Null)
       ELSE EdtReturns(Null) /\ UNCHANGED <<events, headers, response>>
    /\ UNCHANGED <<caller, run, scraped_title, place_id, lat, lng, store_id>>
    /\ UNCHANGED <<waits, batchVars, skuVars>>

\* scrape_product from the EDT digits to its return: the catalog call.
Catalog ==
    /\ pc = "catalog"
    /\ \E r \in CatalogResponses :
        LET evts == CatalogEvents(events)
            edt == EdtDigits(edt_raw)
        IN /\ events' = evts
           /\ headers' = evts[Len(evts)].id
           /\ response' = r
           /\ ReturnProduct(Product(r, scraped_title, edt))
    /\ UNCHANGED <<caller, run, scraped_title, place_id, lat, lng, store_id, edt_raw,
                   resolver, attempt, max_retries>>
    /\ UNCHANGED <<waits, batchVars, skuVars>>

MayRerunOnceMore(r) == r <= TaskRetries + 1

\* retries=3: run number r, which raised, is followed by another run.
MayRerun(r) == r <= TaskRetries

\* @task(retries=3, retry_delay_seconds=10): a run that raised is followed,
\* after the delay, by a new run of scrape_task.
TaskRetry ==
    /\ pc = "raised"
    /\ MayRerun(run)
    /\ run' = run + 1
    /\ waits' = Append(waits, TaskRetryDelay)
    /\ pc' = "start"
    /\ scraped_title' = EmptyStr
    /\ place_id' = Null
    /\ lat' = Null
    /\ lng' = Null
    /\ store_id' = Null
    /\ edt_raw' = Null
    /\ resolver' = NoResolver
    /\ attempt' = 0
    /\ max_retries' = 0
    /\ headers' = 0
    /\ events' = <<>>
    /\ exc' = "none"
    /\ response' = NoResponse
    /\ UNCHANGED <<caller, result, outcome>>
    /\ UNCHANGED <<batchVars, skuVars>>

\* @task(retries=3): the last run raised, the task ends Failed and the
\* exception surfaces from future.result().
TaskFails ==
    /\ pc = "raised"
    /\ ~MayRerun(run)
    /\ outcome' = "crashed"
    /\ pc' = "done"
    /\ UNCHANGED <<caller, run, scraped_title, place_id, lat, lng, store_id, edt_raw,
                   resolver, attempt, max_retries, headers, events, result, exc,
                   response>>
    /\ UNCHANGED <<waits, batchVars, skuVars>>

\* run_batch up to its first chunk: the counters, and the early return for
\* an empty product list.
Enter ==
    /\ pc = "enter"
    /\ total' = Len(products)
    /\ success' = 0
    /\ failed' = 0
    /\ IF EmptyInput(Len(products))
       THEN /\ summary' = <<SummaryOf(0, 0, 0)>>
            /\ pc' = "done"
       ELSE /\ summary' = summary
            /\ pc' = "chunk"
    /\ UNCHANGED <<caller, exc, chainVars, skuVars>>
    /\ UNCHANGED <<products, chunk_size, index, group, position, task, chunks, consumed>>

\* chunked asks range for its first index with a step of zero: ValueError,
\* which nothing in run_batch catches.
ChunkedRaises ==
    /\ pc = "chunk"
    /\ RangeRaises(chunk_size)
    /\ exc' = "ValueError"
    /\ pc' = "done"
    /\ UNCHANGED <<caller, chainVars, batchVars, skuVars>>

\* chunked yields the next slice and scrape_task.map submits one task per
\* item of it.
SubmitChunk ==
    /\ pc = "chunk"
    /\ ~RangeRaises(chunk_size)
    /\ InChunkRange(index, Len(products), chunk_size)
    /\ LET g == Slice(products, index, index + chunk_size)
       IN  /\ group' = g
           /\ chunks' = Append(chunks, g)
           /\ task' = [i \in DOMAIN task |->
                         IF \E k \in 1..Len(g) : g[k] = i THEN "running" ELSE task[i]]
    /\ index' = index + chunk_size
    /\ position' = 0
    /\ pc' = "collect"
    /\ UNCHANGED <<caller, exc, chainVars, skuVars>>
    /\ UNCHANGED <<products, chunk_size, total, success, failed, consumed, summary>>

\* A submitted task ends, in the task runner.
TaskResolves ==
    /\ \E i \in DOMAIN task, o \in TaskOutcomes :
          /\ task[i] = "running"
          /\ task' = [task EXCEPT ![i] = o]
    /\ UNCHANGED <<caller, pc, exc, chainVars, skuVars>>
    /\ UNCHANGED <<products, chunk_size, total, success, failed, index, group,
                   position, chunks, consumed, summary>>

\* One turn of "for future in futures": result() of the next future of the
\* chunk, and the counter it moves.
Collect ==
    /\ pc = "collect"
    /\ LET i == group[position + 1]
           o == task[i]
       IN  /\ Resolved(o)
           /\ consumed' = Append(consumed, i)
           /\ success' = success + SuccessIncrement(o)
           /\ failed' = failed + FailedIncrement(o)
    /\ position' = position + 1
    /\ pc' = IF position + 1 = Len(group) THEN "chunk" ELSE "collect"
    /\ UNCHANGED <<caller, exc, chainVars, skuVars>>
    /\ UNCHANGED <<products, chunk_size, total, index, group, task, chunks, summary>>

\* chunked is exhausted: run_batch returns its summary.
ReturnSummary ==
    /\ pc = "chunk"
    /\ ~RangeRaises(chunk_size)
    /\ ~InChunkRange(index, Len(products), chunk_size)
    /\ summary' = <<SummaryOf(total, success, failed)>>
    /\ pc' = "done"
    /\ UNCHANGED <<caller, exc, chainVars, skuVars>>
    /\ UNCHANGED <<products, chunk_size, total, success, failed, index, group,
                   position, task, chunks, consumed>>

\* extract_sku_from_url returns.
ExtractSku ==
    /\ pc = "sku"
    /\ sku_id' = <<extract_sku_from_url(url)>>
    /\ pc' = "done"
    /\ UNCHANGED <<caller, exc, chainVars, batchVars, url>>

Next ==
    \/ Begin
    \/ Autocomplete
    \/ Detail
    \/ StoreStep
    \/ EdtStep
    \/ Catalog
    \/ TaskRetry
    \/ TaskFails
    \/ Enter
    \/ ChunkedRaises
    \/ SubmitChunk
    \/ TaskResolves
    \/ Collect
    \/ ReturnSummary
    \/ ExtractSku

Spec == Init /\ [][Next]_vars

\* A sequential program takes its next step: every call has a timeout.
FairSpec == Spec /\ WF_vars(Next)

\* ---------------------------------------------------------------- claims
ReqIndices(who) == {i \in 1..Len(events) : events[i].e = "req" /\ events[i].who = who}
EventsOf(who) == {i \in 1..Len(events) : events[i].who = who}
\* The catalog endpoint was called in this run, and response is what it gave.
CatalogCalled == ReqIndices("catalog") # {}
InTask == caller = "scrape_task"

\* C1: in a run in which get_lat_long_zepto failed (returned (None, None)),
\* get_zepto_store_id and get_edt are never invoked and scrape_product
\* returns None.
LatLongFailed == resolver.latlong = "returned" /\ lat.k = "null" /\ lng.k = "null"
C1_CoordinateFailureEndsRun ==
    (InTask /\ LatLongFailed) =>
        /\ resolver.store = "pending"
        /\ resolver.edt = "pending"
        /\ EventsOf("store") = {}
        /\ EventsOf("edt") = {}
        /\ pc = "done"
        /\ result.kind = "None"

\* A run in which the detail call was made and the resolver failed on it.
C1_Witness ==
    /\ InTask
    /\ LatLongFailed
    /\ ReqIndices("detail") # {}
    /\ result.kind = "None"

\* C2: when the coordinates were obtained and get_zepto_store_id returned no
\* store id, the run returns None with no ETA lookup, no pause and no catalog
\* call; a record is returned only in a run whose store resolver returned a
\* non-empty store id before the catalog call, and the store resolver is
\* entered only after both coordinates were obtained.
StoreIdMissing == resolver.store = "returned" /\ ~Truthy(store_id)
C2_NoRecordWithoutStore ==
    InTask =>
        /\ StoreIdMissing =>
              /\ pc = "done"
              /\ result.kind = "None"
              /\ resolver.edt = "pending"
              /\ EventsOf("edt") = {}
              /\ EventsOf("catalog") = {}
        /\ (result.kind = "record" \/ CatalogCalled) =>
              /\ resolver.store = "returned"
              /\ store_id.k = "str"
              /\ Len(store_id.v) > 0
              /\ \A i \in EventsOf("store") : \A j \in EventsOf("catalog") : i < j
        /\ (resolver.store # "pending" \/ EventsOf("store") # {}) =>
              /\ resolver.latlong = "returned"
              /\ lat.k = "num" /\ lat.v # 0
              /\ lng.k = "num" /\ lng.v # 0
              /\ \A i \in ReqIndices("detail") : \A j \in EventsOf("store") : i < j

\* A run with coordinates whose only store attempt gave an empty store id.
C2_Witness ==
    /\ InTask
    /\ StoreIdMissing
    /\ lat.k = "num"
    /\ response.parse
    /\ result.kind = "None"

\* C3: when the catalog endpoint answers 404, scrape_product returns the
\* record titled "Item Not Found" with is_available "Item Not Found", never
\* None, whatever get_edt returned and whatever title was scraped.
C3_NotFoundGivesSentinel ==
    (InTask /\ CatalogCalled /\ ~response.err /\ response.status = 404) =>
        /\ result.kind = "record"
        /\ result.rec.title = Str(ItemNotFound)
        /\ result.rec.is_available = Str(ItemNotFound)
        /\ outcome = "success"

\* A 404 with a body that is no JSON, after a failed ETA lookup and a scraped title.
C3_Witness ==
    /\ InTask
    /\ CatalogCalled
    /\ ~response.err
    /\ response.status = 404
    /\ ~response.parse
    /\ edt_raw.k = "null"
    /\ scraped_title = Str(Foo)
    /\ result.kind = "record"

\* C4: when the catalog endpoint answers a status that is neither 200 nor
\* 404, scrape_product returns None, whatever get_edt returned and whatever
\* title was scraped.
C4_OtherStatusGivesNone ==
    (InTask /\ CatalogCalled /\ ~response.err /\ response.status \notin {200, 404}) =>
        /\ result.kind = "None"
        /\ outcome = "failed"

\* A 302 carrying a whole product document, after a successful ETA lookup
\* and a scraped title.
C4_Witness ==
    /\ InTask
    /\ CatalogCalled
    /\ response.status = 302
    /\ response.parse
    /\ edt_raw.k = "str"
    /\ edt_raw.v = EightMins
    /\ scraped_title = Str(Foo)
    /\ result.kind = "None"

\* C5: scrape_task lets no exception out: every run ends with a payload
\* tagged success or failed, whatever the upstream answers.
C5_TaskNeverRaises ==
    InTask =>
        /\ exc = "none"
        /\ pc # "raised"
        /\ outcome \in {"pending", "success", "failed"}

\* C6: no resolver lets an exception out: get_lat_long_zepto,
\* get_zepto_store_id and get_edt return, whatever the upstream answers.
C6_ResolversNeverRaise ==
    \A w \in {"latlong", "store", "edt"} : resolver[w] # "raised"

\* C7: get_zepto_store_id with budget max_retries issues at most max_retries
\* lookups and terminates; a transport error, a non-200 status, an
\* unparseable body, a missing serviceability object or a falsy store id
\* leads to the next attempt on a non-final attempt and to None on the final
\* one; the first store id is returned at once.
StoreBody(r) == r.body.v
HasServiceability(r) ==
    /\ ~r.err /\ r.status = 200 /\ r.parse /\ r.body.k = "obj"
    /\ "storeServiceableResponse" \in DOMAIN StoreBody(r)
    /\ StoreBody(r).storeServiceableResponse.k = "obj"
HasStoreId(r) ==
    /\ HasServiceability(r)
    /\ "storeId" \in DOMAIN StoreBody(r).storeServiceableResponse.v
    /\ Truthy(StoreBody(r).storeServiceableResponse.v.storeId)
C7_ListedFailure(r) ==
    \/ r.err
    \/ r.status # 200
    \/ ~r.parse
    \/ /\ r.body.k = "obj"
       /\ \/ "storeServiceableResponse" \notin DOMAIN StoreBody(r)
          \/ StoreBody(r).storeServiceableResponse.k = "null"
    \/ HasServiceability(r) /\ ~HasStoreId(r)
C7_StoreLoop ==
    pc = "store" =>
        /\ attempt >= max_retries =>
              /\ events' = events
              /\ pc' # "store"
              /\ resolver'.store = "returned"
              /\ store_id'.k = "null"
        /\ attempt < max_retries =>
              /\ Cardinality({i \in 1..Len(events') : events'[i] = ReqEv("store", attempt, events'[i].id)})
                    = 1
              /\ (C7_ListedFailure(response') /\ attempt < max_retries - 1) =>
                    /\ pc' = "store"
                    /\ attempt' = attempt + 1
                    /\ resolver'.store = "pending"
              /\ (C7_ListedFailure(response') /\ attempt = max_retries - 1) =>
                    /\ pc' # "store"
                    /\ resolver'.store = "returned"
                    /\ store_id'.k = "null"
              /\ HasStoreId(response') =>
                    /\ pc' # "store"
                    /\ resolver'.store = "returned"
                    /\ store_id' = StoreBody(response').storeServiceableResponse.v.storeId
C7_StoreRetryPolicy ==
    /\ [](pc = "store" \/ caller = "get_zepto_store_id" =>
            Cardinality(ReqIndices("store")) <= max_retries)
    /\ [][C7_StoreLoop]_vars
    /\ (pc = "store") ~> (pc # "store")

\* A direct call with a budget of three that failed twice and then got a store id.
C7_Witness ==
    /\ caller = "get_zepto_store_id"
    /\ max_retries = 3
    /\ Cardinality(ReqIndices("store")) = 3
    /\ resolver.store = "returned"
    /\ store_id.k = "str"

\* C8: in get_zepto_store_id and in get_edt the sleep before attempt i is
\* RETRY_DELAY * (i + 1) for every i > 0, there is no sleep before attempt 0,
\* and each sleep comes right before the request of its own attempt.
Retrying == {"store", "edt"}
C8_LinearBackoff ==
    \A i \in 1..Len(events) :
        LET ev == events[i] IN
        ev.who \in Retrying =>
            /\ ev.e = "sleep" =>
                  /\ ev.attempt > 0
                  /\ ev.delay = RETRY_DELAY * (ev.attempt + 1)
                  /\ i < Len(events)
                  /\ events[i + 1].e = "req"
                  /\ events[i + 1].who = ev.who
                  /\ events[i + 1].attempt = ev.attempt
            /\ (ev.e = "req" /\ ev.attempt > 0) =>
                  /\ i > 1
                  /\ events[i - 1].e = "sleep"
                  /\ events[i - 1].who = ev.who
                  /\ events[i - 1].attempt = ev.attempt
            /\ (ev.e = "req" /\ ev.attempt = 0) =>
                  /\ i > 1
                  /\ events[i - 1].e = "gen"

\* A call of get_zepto_store_id that slept before its second and before its
\* third attempt.
C8_Witness ==
    /\ caller = "get_zepto_store_id"
    /\ \E i \in 1..Len(events) :
          events[i] = SleepEv("store", 1, 2 * RETRY_DELAY)
    /\ \E i \in 1..Len(events) :
          events[i] = SleepEv("store", 2, 3 * RETRY_DELAY)

\* C9: in get_zepto_store_id the identities generated so far are as many as
\* the attempts started so far: each attempt sends an identity generated
\* for it, and no two attempts send the same one.
StoreGens == {i \in EventsOf("store") : events[i].e = "gen"}
C9_FreshIdentityPerAttempt ==
    /\ Cardinality(StoreGens) = Cardinality(ReqIndices("store"))
    /\ pc = "store" => Cardinality(StoreGens) = attempt
    /\ \A i \in ReqIndices("store") :
          /\ \E g \in StoreGens :
                /\ g < i
                /\ events[g].id = events[i].id
                /\ events[g].attempt = events[i].attempt
          /\ \A j \in ReqIndices("store") : i # j => events[i].id # events[j].id

\* Three attempts were started.
C9_Witness ==
    /\ caller = "get_zepto_store_id"
    /\ Cardinality(ReqIndices("store")) = 3
    /\ Cardinality(StoreGens) = 3

\* C10: within one run no identity is sent with more than one upstream call.
AllReqs == Indices(events, "req")
C10_NoIdentityShared ==
    \A i \in AllReqs : \A j \in AllReqs : i # j => events[i].id # events[j].id

\* C10 as amended: within one run every call carries an identity generated
\* in that run before it, and two calls carry the same identity only when
\* they are the autocomplete and the detail call of get_lat_long_zepto; each
\* store attempt, each ETA attempt and the catalog call carries an identity
\* generated for that call alone.
C10_IdentitySharedOnlyByPlaceCalls ==
    \A i \in AllReqs :
        /\ \E g \in Indices(events, "gen") : g < i /\ events[g].id = events[i].id
        /\ \A j \in AllReqs :
              (i < j /\ events[i].id = events[j].id) =>
                  /\ events[i].who = "autocomplete"
                  /\ events[j].who = "detail"

\* A run that made all six calls: both place calls, one store attempt, two
\* ETA attempts and the catalog call.
C10_Witness ==
    /\ InTask
    /\ Cardinality(AllReqs) = 6
    /\ CatalogCalled
    /\ events[1].id = events[3].id

\* C11: once get_edt has returned, whatever it returned, the run goes on to
\* the catalog call; and when it returned None the record that is returned
\* (the product's or the "Item Not Found" one) has an empty edt.
C11_EdtNeverBlocks ==
    InTask =>
        /\ resolver.edt = "returned" =>
              \/ pc = "catalog"
              \/ pc = "done" /\ CatalogCalled
        /\ (result.kind = "record" /\ edt_raw.k = "null") =>
              /\ result.rec.edt.k = "str"
              /\ result.rec.edt.v = <<>>

\* get_edt gave up after two attempts, and the catalog then gave a product.
C11_Witness ==
    /\ InTask
    /\ resolver.edt = "returned"
    /\ edt_raw.k = "null"
    /\ Cardinality(ReqIndices("edt")) = 2
    /\ result.kind = "record"
    /\ ~response.err
    /\ response.status = 200

\* The parsed 200 body of the catalog call, where the run has one.
Catalog200 == InTask /\ CatalogCalled /\ ~response.err /\ response.status = 200 /\ response.parse
Same(a, b) == a.k = b.k /\ a.v = b.v
HasKey(x, key) == x.k = "obj" /\ key \in DOMAIN x.v
\* The first store product of the body, where the path to it can be walked.
HasStoreProduct(b) ==
    /\ HasKey(b, "product")
    /\ HasKey(b.v.product, "storeProducts")
    /\ b.v.product.v.storeProducts.k = "list"
    /\ Len(b.v.product.v.storeProducts.v) > 0
FirstStoreProduct(b) == b.v.product.v.storeProducts.v[1]

\* C12: on a 200 the title is the scraped title when that is non-empty, else
\* the API's product name when that is non-empty, else "Unknown".
C12_ApiNameGiven(b) ==
    /\ HasKey(b, "product")
    /\ HasKey(b.v.product, "name")
    /\ b.v.product.v.name.k = "str"
    /\ Len(b.v.product.v.name.v) > 0
C12_TitleSelection ==
    Catalog200 =>
        /\ result.kind = "record"
        /\ Same(result.rec.title,
                IF Len(scraped_title.v) > 0 THEN scraped_title
                ELSE IF C12_ApiNameGiven(response.body) THEN response.body.v.product.v.name
                ELSE Str(Unknown))

\* C13: on a 200, is_available is "No" when outOfStock is true, "Yes" when
\* it is false, and "Unknown" when the field is absent, null, no boolean or
\* cannot be reached.
C13_StockGiven(b) ==
    /\ HasStoreProduct(b)
    /\ HasKey(FirstStoreProduct(b), "outOfStock")
    /\ FirstStoreProduct(b).v.outOfStock.k = "bool"
C13_AvailabilityMapping ==
    Catalog200 =>
        /\ result.kind = "record"
        /\ Same(result.rec.is_available,
                IF C13_StockGiven(response.body)
                THEN IF FirstStoreProduct(response.body).v.outOfStock.v
                     THEN Str(No) ELSE Str(Yes)
                ELSE Str(Unknown))

\* C14: on a 200, live_price is discountedSellingPrice / 100 when there is a
\* discounted selling price, else sellingPrice / 100 when there is a selling
\* price, else empty; mrp is the variant's mrp / 100 when there is one, else
\* empty.  Amounts are whole units and hundredths: 12550 is <<125, 50>>; a
\* JSON true or false is the integer 1 or 0.  This is about the record that
\* is returned; whether one is returned is C21's matter.
Amount(x, key) ==
    IF ~HasKey(x, key) THEN -1
    ELSE IF x.v[key].k = "num" THEN x.v[key].v
    ELSE IF x.v[key].k = "bool" THEN (IF x.v[key].v THEN 1 ELSE 0)
    ELSE -1
Hundredths(n) ==
    IF n < 0 THEN EmptyStr ELSE [k |-> "dec", v |-> <<n \div 100, n % 100>>]
C14_PricesInUnits ==
    Catalog200 =>
        LET b == response.body
            sp == IF HasStoreProduct(b) THEN FirstStoreProduct(b) ELSE Null
            discounted == Amount(sp, "discountedSellingPrice")
            selling == Amount(sp, "sellingPrice")
            mrp == IF HasKey(sp, "productVariant")
                   THEN Amount(sp.v.productVariant, "mrp") ELSE -1
        IN result.kind = "record" =>
              /\ Same(result.rec.live_price,
                      Hundredths(IF discounted >= 0 THEN discounted ELSE selling))
              /\ Same(result.rec.mrp, Hundredths(mrp))

\* The product with an mrp of 12550 and both prices: 125.50 and 99.00.
C14_Witness ==
    /\ Catalog200
    /\ HasStoreProduct(response.body)
    /\ Amount(FirstStoreProduct(response.body), "discountedSellingPrice") = 9900
    /\ Amount(FirstStoreProduct(response.body), "sellingPrice") = 11000
    /\ result.rec.mrp.k = "dec"
    /\ result.rec.mrp.v = <<125, 50>>
    /\ result.rec.live_price.k = "dec"
    /\ result.rec.live_price.v = <<99, 0>>

\* C19: get_lat_long_zepto returns two coordinates or (None, None), never
\* one of the two; it makes the detail call only after the autocomplete call
\* gave a place id; and it makes each call at most once.
C19_NoPartialCoordinates ==
    /\ resolver.latlong = "returned" => (lat.k = "null" <=> lng.k = "null")
    /\ ReqIndices("detail") # {} =>
          /\ ReqIndices("autocomplete") # {}
          /\ \A i \in ReqIndices("autocomplete") : \A j \in ReqIndices("detail") : i < j
    /\ Cardinality(ReqIndices("autocomplete")) <= 1
    /\ Cardinality(ReqIndices("detail")) <= 1

\* ------------------------------------------------------- batch claims
BatchCall == caller = "run_batch"
BatchDone == BatchCall /\ pc = "done"
SuccessOutcomes == {"record", "sentinel"}
FailureOutcomes == {"failed", "crashed"}
ConsumedWith(outcomes) ==
    {k \in 1..Len(consumed) : task[consumed[k]] \in outcomes}
ItemsOf(chunk) == {chunk[k] : k \in 1..Len(chunk)}

\* C15: run_batch given an empty product list returns the all-zero summary
\* whatever chunk_size is (0 and negative included): it leaves in one step,
\* raises nothing, and hands no chunk to the task runner.
C15_EmptyListGivesZeros ==
    (BatchCall /\ products = <<>>) =>
        /\ exc = "none"
        /\ chunks = <<>>
        /\ pc \in {"enter", "done"}
        /\ pc = "done" => summary = <<SummaryOf(0, 0, 0)>>

C15_Witness ==
    /\ BatchDone
    /\ products = <<>>
    /\ chunk_size = 0
    /\ summary = <<SummaryOf(0, 0, 0)>>

\* C16: a batch of K items with chunk_size >= K always terminates, in at most
\* one chunk and without raising, and its summary has total = K and
\* success + failed = K, whatever the tasks did (record, sentinel, failed
\* payload, exception).
C16_EveryItemCounted ==
    /\ []((BatchCall /\ chunk_size >= Len(products)) =>
            /\ exc = "none"
            /\ Len(chunks) <= 1
            /\ pc = "done" =>
                  /\ summary # <<>>
                  /\ summary[1].total = Len(products)
                  /\ summary[1].success + summary[1].failed = Len(products))
    /\ (BatchCall /\ chunk_size >= Len(products)) ~> (pc = "done")

C16_Witness ==
    /\ BatchDone
    /\ Len(products) = 4
    /\ chunk_size = 4
    /\ task = <<"record", "sentinel", "failed", "crashed">>
    /\ summary = <<SummaryOf(4, 2, 2)>>

\* C17: success counts exactly the items read so far whose task returned a
\* payload with status "success" (the sentinel included), failed counts
\* exactly the other items read (failed payload or exception); no item is
\* read twice, and when run_batch returns every task that ran has been read.
C17_CountedByStatus ==
    BatchCall =>
        /\ success = Cardinality(ConsumedWith(SuccessOutcomes))
        /\ failed = Cardinality(ConsumedWith(FailureOutcomes))
        /\ \A k1, k2 \in 1..Len(consumed) : consumed[k1] = consumed[k2] => k1 = k2
        /\ \A k \in 1..Len(consumed) : task[consumed[k]] \in TaskOutcomes
        /\ (pc = "done" /\ exc = "none") =>
              \A i \in DOMAIN task :
                  task[i] # "unsubmitted" => \E k \in 1..Len(consumed) : consumed[k] = i

C17_Witness ==
    /\ BatchDone
    /\ chunk_size = 1
    /\ task = <<"sentinel", "crashed", "failed">>
    /\ consumed = <<1, 2, 3>>
    /\ success = 1
    /\ failed = 2

\* C18: the n-th chunk is the slice of products from (n - 1) * chunk_size of
\* at most chunk_size items, in input order, full unless it is the last; a
\* task is submitted only as part of its chunk, and when a chunk has been
\* submitted every task of every earlier chunk has ended; for chunk_size >= 1
\* the chunks cover the list on return.
C18_ChunksInOrderBehindBarrier ==
    BatchCall =>
        /\ \A n \in 1..Len(chunks) :
              /\ chunks[n] = SubSeq(products, (n - 1) * chunk_size + 1,
                                    Min(n * chunk_size, Len(products)))
              /\ chunks[n] # <<>>
              /\ n * chunk_size <= Len(products) => Len(chunks[n]) = chunk_size
        /\ \A n \in 1..(Len(chunks) - 1) :
              \A i \in ItemsOf(chunks[n]) : task[i] \in TaskOutcomes
        /\ \A i \in DOMAIN task :
              task[i] = "unsubmitted" <=>
                  \A n \in 1..Len(chunks) : i \notin ItemsOf(chunks[n])
        /\ (pc = "done" /\ chunk_size >= 1) =>
              Len(chunks) * chunk_size >= Len(products)

\* The second chunk is in flight, its second task ended before its first.
C18_Witness ==
    /\ BatchCall
    /\ chunk_size = 2
    /\ chunks = << <<1, 2>>, <<3, 4>> >>
    /\ task[1] = "crashed"
    /\ task[2] = "record"
    /\ task[3] = "running"
    /\ task[4] = "failed"

\* --------------------------------------------------------- SKU claim
\* The part of the URL before its first '?'.
PathOf(u) ==
    LET marks == {i \in 1..Len(u) : u[i] = "?"}
    IN  IF marks = {} THEN u
        ELSE SubSeq(u, 1, (CHOOSE i \in marks : \A j \in marks : i <= j) - 1)

\* The part of a path after its last '/'.
LastSegment(p) ==
    LET slashes == {i \in 1..Len(p) : p[i] = "/"}
    IN  IF slashes = {} THEN p
        ELSE SubSeq(p, (CHOOSE i \in slashes : \A j \in slashes : j <= i) + 1, Len(p))

\* C20: the SKU extract_sku_from_url returns is the last segment of the URL's
\* path, the query string removed, for every URL: with a '/' inside the
\* query and with a trailing '/' as well.
C20_SkuIsLastPathSegment ==
    (caller = "extract_sku_from_url" /\ sku_id # <<>>) =>
        sku_id[1] = LastSegment(PathOf(url))

\* ------------------------------------------------ extraction claim
\* The keys of a JSON object as a function; nothing for any other value.
NoFields == [key \in {} |-> Null]
FieldsOf(x) == IF x.k = "obj" THEN x.v ELSE NoFields
KeyOr(f, key) == IF key \in DOMAIN f THEN f[key] ELSE Null
SetKey(f, key, val) ==
    [k \in DOMAIN f \cup {key} |-> IF k = key THEN val ELSE f[k]]

\* The fields of the body's first store product, none where there is none.
FirstFields(b) ==
    IF HasStoreProduct(b) THEN FieldsOf(FirstStoreProduct(b)) ELSE NoFields

\* The body with f for the fields of its first store product, the path to
\* it made walkable.
WithFirstFields(b, f) ==
    LET product == FieldsOf(KeyOr(FieldsOf(b), "product"))
    IN  Obj(SetKey(FieldsOf(b), "product",
                   Obj(SetKey(product, "storeProducts", List(<<Obj(f)>>)))))

\* The body with one field made well-formed and nothing else touched.
WithMrp(b) ==
    LET variant == FieldsOf(KeyOr(FirstFields(b), "productVariant"))
    IN  WithFirstFields(b, SetKey(FirstFields(b), "productVariant",
                                  Obj(SetKey(variant, "mrp", Num(12550)))))
WithPrice(b) ==
    WithFirstFields(b, SetKey(FirstFields(b), "discountedSellingPrice", Num(9900)))
WithStock(b) ==
    WithFirstFields(b, SetKey(FirstFields(b), "outOfStock", Bool(FALSE)))

\* A field is well-formed: its path can be walked and ends in a value of its
\* type, an integer for the amounts and a boolean for the stock flag.
IsInteger(x) == x.k \in {"num", "bignum"}
MrpWellFormed(b) ==
    IsInteger(KeyOr(FieldsOf(KeyOr(FirstFields(b), "productVariant")), "mrp"))
PriceWellFormed(b) ==
    \/ IsInteger(KeyOr(FirstFields(b), "discountedSellingPrice"))
    \/ IsInteger(KeyOr(FirstFields(b), "sellingPrice"))
StockWellFormed(b) == KeyOr(FirstFields(b), "outOfStock").k = "bool"

RecordFields == {"title", "mrp", "live_price", "is_available", "edt"}
AgreeExcept(field, r1, r2) ==
    \A g \in RecordFields \ {field} : Same(r1[g], r2[g])

\* C21: on a 200 with a parseable body a record is returned whatever the
\* shape of the body; a field whose key is missing, whose value has the wrong
\* type or whose list index is out of range takes its default ('' for mrp and
\* live_price, "Unknown" for is_available), and every other field of the
\* record is what it is for the same body with that field well-formed.
C21_FieldsIndependent ==
    Catalog200 =>
        LET b == response.body
            edt == EdtDigits(edt_raw)
        IN  /\ result.kind = "record"
            /\ ~MrpWellFormed(b) =>
                  /\ Same(result.rec.mrp, EmptyStr)
                  /\ AgreeExcept("mrp", result.rec, Extract(WithMrp(b), scraped_title, edt))
            /\ ~PriceWellFormed(b) =>
                  /\ Same(result.rec.live_price, EmptyStr)
                  /\ AgreeExcept("live_price", result.rec,
                                 Extract(WithPrice(b), scraped_title, edt))
            /\ ~StockWellFormed(b) =>
                  /\ Same(result.rec.is_available, Str(Unknown))
                  /\ AgreeExcept("is_available", result.rec,
                                 Extract(WithStock(b), scraped_title, edt))

\* ------------------------------------------------------ task-layer claim
\* C22: the task layer runs scrape_task between one and four times, one run
\* and three retries, each retry after a delay of 10 s; a new run starts only
\* when the run before it raised, and starts the chain afresh from its first
\* step, so that the resolvers have their own budgets of attempts again; a
\* run that returned a payload, success or failed, is the last one.
C22_StateOfRuns ==
    InTask =>
        /\ run \in 1..(TaskRetries + 1)
        /\ Len(waits) = run - 1
        /\ \A i \in 1..Len(waits) : waits[i] = 10
        /\ outcome \in {"success", "failed"} => (pc = "done" /\ exc = "none")
        /\ Cardinality(ReqIndices("store")) <= StoreDefaultRetries
        /\ Cardinality(ReqIndices("edt")) <= EdtDefaultRetries
C22_StepOfRuns ==
    /\ run' # run =>
          /\ pc = "raised"
          /\ exc # "none"
          /\ outcome = "pending"
          /\ run' = run + 1
          /\ pc' = "start"
          /\ events' = <<>>
          /\ attempt' = 0
          /\ resolver' = NoResolver
          /\ exc' = "none"
    /\ (InTask /\ outcome \in {"success", "failed"}) => UNCHANGED <<run, outcome, events>>
C22_TaskRetriesWholeChain == [](C22_StateOfRuns) /\ [][C22_StepOfRuns]_vars

\* The fourth run, after three that raised, returns a record, get_edt having
\* used both attempts of its budget in it.
C22_Witness ==
    /\ InTask
    /\ run = 4
    /\ waits = <<10, 10, 10>>
    /\ pc = "done"
    /\ outcome = "success"
    /\ result.kind = "record"
    /\ Cardinality(ReqIndices("edt")) = 2

\* ------------------------------------------------- batch invariant claim
RECURSIVE Concat(_)
Concat(seqs) == IF seqs = <<>> THEN <<>> ELSE Head(seqs) \o Concat(Tail(seqs))
Ended(outcomes) == Cardinality({i \in DOMAIN task : task[i] \in outcomes})

\* C23: for a non-empty product list and chunk_size >= 1, whenever a chunk
\* has been joined success + failed is the number of items of the chunks
\* submitted so far, the futures read being exactly those items, each once and
\* in input order; run_batch terminates without raising with total = the
\* number of items = success + failed, and the summary is a function of how
\* the tasks ended, whatever the order in which they ended.
C23_JoinedChunks ==
    (BatchCall /\ products # <<>> /\ chunk_size >= 1) =>
        /\ exc = "none"
        /\ pc \in {"chunk", "done"} =>
              /\ consumed = Concat(chunks)
              /\ consumed = SubSeq(products, 1, Len(consumed))
              /\ success + failed = Len(consumed)
        /\ pc = "done" =>
              /\ consumed = products
              /\ summary = <<SummaryOf(Len(products), Ended(SuccessOutcomes),
                                       Ended(FailureOutcomes))>>
              /\ summary[1].success + summary[1].failed = summary[1].total
C23_BatchInvariant ==
    /\ [](C23_JoinedChunks)
    /\ (BatchCall /\ products # <<>> /\ chunk_size >= 1) ~> (pc = "done")

\* Three items in chunks of two: the second chunk is the shorter last one.
C23_Witness ==
    /\ BatchDone
    /\ chunk_size = 2
    /\ chunks = << <<1, 2>>, <<3>> >>
    /\ task = <<"failed", "record", "crashed">>
    /\ summary = <<SummaryOf(3, 1, 2)>>

====
